---- MODULE Spec2Model ----
(***************************************************************************)
(* Aternos Watcher (src/main.py): the status classifier get_server_status, *)
(* the notification sender send_discord_notification and the polling loop  *)
(* of main, as a state machine.  One step of the machine is one statement  *)
(* (or one call) of the loop body; a "tick" is one iteration of the        *)
(* `while True' loop, from the first get_server_status() call to the       *)
(* time.sleep(CHECK_INTERVAL) that ends it.                                *)
(*                                                                         *)
(* Texts are sequences of one-character strings, so that str.lower() and   *)
(* the substring test `in' are computed character by character.            *)
(***************************************************************************)
EXTENDS Integers, Sequences, FiniteSets, TLC

(***************************************************************************)
(* Bounds of the model.                                                    *)
(***************************************************************************)
\* completed ticks are counted up to this number (the counter saturates)
MaxTicks == 3
\* calls of send_discord_notification since boot are counted up to this number
MaxSent == 2
\* a message text of the classifier's input space is made of at most this many fragments
MaxFrags == 2
\* a text of the formatter's input space has at most this many characters
MaxAnsiLen == 3

(***************************************************************************)
(* ServerState (enum, lines 47-52).                                        *)
(***************************************************************************)
OFFLINE == "OFFLINE"
STARTING == "STARTING"
WAITING == "WAITING"
ONLINE == "ONLINE"
STOPPING == "STOPPING"
ServerState == {OFFLINE, STARTING, WAITING, ONLINE, STOPPING}

\* Python's None for the state-valued history variables
NoState == "none"

(***************************************************************************)
(* Text helpers: str.lower() and the substring operator `in'.              *)
(***************************************************************************)
UpperCase == <<"A","B","C","D","E","F","G","H","I","J","K","L","M",
               "N","O","P","Q","R","S","T","U","V","W","X","Y","Z">>
LowerCase == <<"a","b","c","d","e","f","g","h","i","j","k","l","m",
               "n","o","p","q","r","s","t","u","v","w","x","y","z">>

\* c.lower() for one character
LowerChar(c) ==
    IF \E i \in 1..Len(UpperCase) : UpperCase[i] = c
    THEN LowerCase[CHOOSE i \in 1..Len(UpperCase) : UpperCase[i] = c]
    ELSE c

\* text.lower()
Lower(text) == [i \in 1..Len(text) |-> LowerChar(text[i])]

\* `needle in text' for two str values
Contains(text, needle) ==
    \E i \in 0..(Len(text) - Len(needle)) :
        SubSeq(text, i + 1, i + Len(needle)) = needle

\* the keywords of the Aternos filtering logic (lines 126-135)
KwOffline == <<"o","f","f","l","i","n","e">>
KwStarting == <<"s","t","a","r","t","i","n","g">>
KwPreparing == <<"p","r","e","p","a","r","i","n","g">>
KwStopping == <<"s","t","o","p","p","i","n","g">>
KwConnectTo == <<"c","o","n","n","e","c","t"," ","t","o">>

(***************************************************************************)
(* The outcome of one query of the protocol client (lines 116-119): either *)
(* an exception (resolution failure, timeout/refusal, malformed response)  *)
(* or a JavaStatusResponse with a description and the player counts.       *)
(***************************************************************************)
FailureKinds == {"resolve_error", "timeout", "malformed"}

QueryFailure(k) == [kind |-> k, description |-> <<>>, online |-> 0, max |-> 0]
QueryOk(d, m) == [kind |-> "ok", description |-> d, online |-> 0, max |-> m]

\* the JavaStatusResponse carried by a successful query
Response(q) == [description |-> q.description, online |-> q.online, max |-> q.max]

\* fragments the message texts of the input space are made of
Fragments ==
    { KwOffline,
      <<"O","f","f","L","I","N","E">>,
      KwStarting,
      <<"P","r","e","p","a","r","i","n","g">>,
      KwStopping,
      KwConnectTo,
      <<"C","o","n","n","e","c","t"," ","T","O">>,
      <<"c","o","n","n","e","c","t">>,
      <<"W","e","l","c","o","m","e">>,
      <<" ">>,
      <<"o","f","f">>,
      <<"l","i","n","e">> }

RECURSIVE Texts(_)
Texts(n) ==
    IF n = 0 THEN { <<>> }
    ELSE Texts(n - 1) \cup { t \o f : t \in Texts(n - 1), f \in Fragments }

\* declared max-player capacities of the input space
Capacities == {0, 20}

\* the input space of the classifier
AllQueries ==
    { QueryFailure(k) : k \in FailureKinds }
    \cup { QueryOk(d, m) : d \in Texts(MaxFrags), m \in Capacities }

\* the message texts the polling loop is run against
LoopTexts ==
    { <<"O","f","f","l","i","n","e">>,
      <<"P","r","e","p","a","r","i","n","g">>,
      KwStopping,
      KwConnectTo,
      <<"W","e","l","c","o","m","e">> }

\* the query outcomes the polling loop is run against
LoopQueries ==
    { QueryFailure(k) : k \in FailureKinds }
    \cup { QueryOk(d, m) : d \in LoopTexts, m \in Capacities }

(***************************************************************************)
(* get_server_status (lines 110-149).  The result is the returned pair     *)
(* (state, status) and whether an exception leaves the function; status is *)
(* <<>> for None and <<response>> otherwise.                               *)
(***************************************************************************)
\* get_server_status with the "connect to" test moved before the "offline" test
get_server_status_waiting_first(q) ==
    IF q.kind # "ok"
    THEN [state |-> OFFLINE, status |-> <<>>, raised |-> FALSE]
    ELSE LET motd == Lower(q.description)
             st == << Response(q) >>
         IN  IF Contains(motd, KwConnectTo)
             THEN [state |-> WAITING, status |-> st, raised |-> FALSE]
             ELSE IF Contains(motd, KwOffline)
             THEN [state |-> OFFLINE, status |-> st, raised |-> FALSE]
             ELSE IF Contains(motd, KwStarting) \/ Contains(motd, KwPreparing)
             THEN [state |-> STARTING, status |-> st, raised |-> FALSE]
             ELSE IF Contains(motd, KwStopping)
             THEN [state |-> STOPPING, status |-> st, raised |-> FALSE]
             ELSE IF q.max = 0
             THEN [state |-> OFFLINE, status |-> st, raised |-> FALSE]
             ELSE [state |-> ONLINE, status |-> st, raised |-> FALSE]

\* get_server_status with a try block that covers the lookup and the connection
\* only: a malformed response raises out of the function
get_server_status_narrow_try(q) ==
    IF q.kind = "malformed"
    THEN [state |-> OFFLINE, status |-> <<>>, raised |-> TRUE]
    ELSE IF q.kind # "ok"
    THEN [state |-> OFFLINE, status |-> <<>>, raised |-> FALSE]
    ELSE LET motd == Lower(q.description)
             st == << Response(q) >>
         IN  IF Contains(motd, KwOffline)
             THEN [state |-> OFFLINE, status |-> st, raised |-> FALSE]
             ELSE IF Contains(motd, KwStarting) \/ Contains(motd, KwPreparing)
             THEN [state |-> STARTING, status |-> st, raised |-> FALSE]
             ELSE IF Contains(motd, KwStopping)
             THEN [state |-> STOPPING, status |-> st, raised |-> FALSE]
             ELSE IF Contains(motd, KwConnectTo)
             THEN [state |-> WAITING, status |-> st, raised |-> FALSE]
             ELSE IF q.max = 0
             THEN [state |-> OFFLINE, status |-> st, raised |-> FALSE]
             ELSE [state |-> ONLINE, status |-> st, raised |-> FALSE]

\* get_server_status with the capacity test of line 141 made before the
\* keyword tests
get_server_status_capacity_first(q) ==
    IF q.kind # "ok"
    THEN [state |-> OFFLINE, status |-> <<>>, raised |-> FALSE]
    ELSE LET motd == Lower(q.description)
             st == << Response(q) >>
         IN  IF q.max = 0
             THEN [state |-> OFFLINE, status |-> st, raised |-> FALSE]
             ELSE IF Contains(motd, KwOffline)
             THEN [state |-> OFFLINE, status |-> st, raised |-> FALSE]
             ELSE IF Contains(motd, KwStarting) \/ Contains(motd, KwPreparing)
             THEN [state |-> STARTING, status |-> st, raised |-> FALSE]
             ELSE IF Contains(motd, KwStopping)
             THEN [state |-> STOPPING, status |-> st, raised |-> FALSE]
             ELSE IF Contains(motd, KwConnectTo)
             THEN [state |-> WAITING, status |-> st, raised |-> FALSE]
             ELSE [state |-> ONLINE, status |-> st, raised |-> FALSE]

get_server_status(q) ==
    IF q.kind # "ok"
    THEN \* lines 147-149: except Exception
         [state |-> OFFLINE, status |-> <<>>, raised |-> FALSE]
    ELSE LET motd == Lower(q.description)      \* line 124
             st == << Response(q) >>
         IN  IF Contains(motd, KwOffline)
             THEN [state |-> OFFLINE, status |-> st, raised |-> FALSE]
             ELSE IF Contains(motd, KwStarting) \/ Contains(motd, KwPreparing)
             THEN [state |-> STARTING, status |-> st, raised |-> FALSE]
             ELSE IF Contains(motd, KwStopping)
             THEN [state |-> STOPPING, status |-> st, raised |-> FALSE]
             ELSE IF Contains(motd, KwConnectTo)
             THEN [state |-> WAITING, status |-> st, raised |-> FALSE]
             ELSE IF q.max = 0
             THEN [state |-> OFFLINE, status |-> st, raised |-> FALSE]
             ELSE [state |-> ONLINE, status |-> st, raised |-> FALSE]

\* get_server_status on each of the query outcomes the polling loop is run against
LoopResults == [q \in LoopQueries |-> get_server_status(q)]

(***************************************************************************)
(* mc_to_ansi (lines 65-107).  "ESC" stands for the character U+001B.      *)
(***************************************************************************)
\* the escape sequence ESC [ params m
SGR(params) == <<"ESC", "[">> \o params \o <<"m">>

\* the keys of the dict `codes' (lines 70-93), in source order
CodeKeys == <<"0","1","2","3","4","5","6","7","8","9",
              "a","b","c","d","e","f","k","l","m","n","o","r">>

\* the values of the dict `codes' (lines 70-93), in source order
CodeValues ==
    << SGR(<<"3","0">>), SGR(<<"3","4">>), SGR(<<"3","2">>), SGR(<<"3","6">>),
       SGR(<<"3","1">>), SGR(<<"3","5">>), SGR(<<"3","3">>), SGR(<<"3","7">>),
       SGR(<<"3","0",";","1">>), SGR(<<"3","4",";","1">>),
       SGR(<<"3","2",";","1">>), SGR(<<"3","6",";","1">>),
       SGR(<<"3","1",";","1">>), SGR(<<"3","5",";","1">>),
       SGR(<<"3","3",";","1">>), SGR(<<"3","7",";","1">>),
       <<>>, SGR(<<"1">>), <<>>, SGR(<<"4">>), <<>>, SGR(<<"0">>) >>

\* `code in codes'
InCodes(code) == \E k \in 1..Len(CodeKeys) : CodeKeys[k] = code

\* codes[code]
CodeOf(code) == CodeValues[CHOOSE k \in 1..Len(CodeKeys) : CodeKeys[k] = code]

\* the while loop of lines 97-105, from index i (1-based) to the end of the text
\* the loop with `i += 2' taken for every section marker that has a successor,
\* known code or not
RECURSIVE mc_to_ansi_from_drops_unknown(_, _)
mc_to_ansi_from_drops_unknown(text, i) ==
    IF i > Len(text) THEN <<>>
    ELSE IF text[i] = "§" /\ i + 1 <= Len(text)
         THEN (IF InCodes(LowerChar(text[i + 1]))
               THEN CodeOf(LowerChar(text[i + 1])) ELSE <<>>)
              \o mc_to_ansi_from_drops_unknown(text, i + 2)
         ELSE <<text[i]>> \o mc_to_ansi_from_drops_unknown(text, i + 1)

RECURSIVE mc_to_ansi_from(_, _)
mc_to_ansi_from(text, i) ==
    IF i > Len(text) THEN <<>>
    ELSE IF text[i] = "§" /\ i + 1 <= Len(text) /\ InCodes(LowerChar(text[i + 1]))
         THEN CodeOf(LowerChar(text[i + 1])) \o mc_to_ansi_from(text, i + 2)
         ELSE <<text[i]>> \o mc_to_ansi_from(text, i + 1)

mc_to_ansi(text) == mc_to_ansi_from(text, 1) \o SGR(<<"0">>)

(***************************************************************************)
(* send_discord_notification (lines 152-214).  url, players and motd_on    *)
(* are the truth values of WEBHOOK_URL, SHOW_PLAYERS and SHOW_MOTD;        *)
(* transport_ok tells whether webhook.execute() returns or raises.  The    *)
(* result is what the call did (sent, failed: the exception was caught and *)
(* logged, skipped: no webhook URL), whether an exception leaves the       *)
(* function, and the embed that was built.                                 *)
(***************************************************************************)
\* lines 43-44, with the environment variables left unset
SHOW_PLAYERS == TRUE
SHOW_MOTD == TRUE

NoEmbed ==
    [title |-> "none", color |-> "none", waiting_message |-> FALSE,
     players |-> <<>>, motd |-> <<>>]

\* lines 158-169: title and colour per state
StatusText(state) ==
    IF state = ONLINE THEN "ONLINE_TITLE"
    ELSE IF state = WAITING THEN "WAITING_TITLE"
    ELSE IF state = STOPPING THEN "STOPPING_TITLE"
    ELSE "OFFLINE_TITLE"

Color(state) ==
    IF state = ONLINE THEN "ONLINE_COLOR"
    ELSE IF state = WAITING THEN "WAITING_COLOR"
    ELSE IF state = STOPPING THEN "STOPPING_COLOR"
    ELSE "OFFLINE_COLOR"

\* lines 172-195: the embed
BuildEmbed(state, st, players, motd_on) ==
    [title |-> StatusText(state),
     color |-> Color(state),
     waiting_message |-> (state = WAITING),
     players |-> IF st # <<>> /\ players /\ state \in {ONLINE, WAITING}
                 THEN <<st[1].online, st[1].max>> ELSE <<>>,
     motd |-> IF st # <<>> /\ motd_on
              THEN << mc_to_ansi(st[1].description) >> ELSE <<>>]

\* send_discord_notification without the try/except around webhook.execute()
send_discord_notification_uncaught(state, st, url, players, motd_on, transport_ok) ==
    IF ~url
    THEN [outcome |-> "skipped", raised |-> FALSE, embed |-> NoEmbed]
    ELSE IF transport_ok
    THEN [outcome |-> "sent", raised |-> FALSE,
          embed |-> BuildEmbed(state, st, players, motd_on)]
    ELSE [outcome |-> "failed", raised |-> TRUE,
          embed |-> BuildEmbed(state, st, players, motd_on)]

send_discord_notification(state, st, url, players, motd_on, transport_ok) ==
    IF ~url
    THEN \* lines 154-156
         [outcome |-> "skipped", raised |-> FALSE, embed |-> NoEmbed]
    ELSE IF transport_ok
    THEN \* lines 211-212
         [outcome |-> "sent", raised |-> FALSE,
          embed |-> BuildEmbed(state, st, players, motd_on)]
    ELSE \* lines 213-214: except Exception
         [outcome |-> "failed", raised |-> FALSE,
          embed |-> BuildEmbed(state, st, players, motd_on)]

(***************************************************************************)
(* The state of the process.                                               *)
(***************************************************************************)
VARIABLES
    pc,                 \* the statement of main the process is at
    last_state,         \* main's local last_state (line 222)
    current_state,      \* main's local current_state (lines 225, 243)
    status,             \* main's local status (line 225)
    confirmed_state,    \* main's local confirmed_state (line 237)
    confirmed_status,   \* main's local confirmed_status (line 237)
    webhook_url,        \* whether WEBHOOK_URL is set (line 19)
    exit_code,          \* <<>> while running, <<c>> after sys.exit(c)
    dispatched,         \* the state passed to the last call of send_discord_notification
    outcome,            \* what the last call of send_discord_notification did
    embed,              \* the embed built by the last call of send_discord_notification
    query_kind,         \* how the last query of the protocol client ended
    tick_start_last,    \* last_state at the start of the current tick
    first_sample,       \* the state returned by line 225 in the current tick
    requery_sample,     \* the state returned by line 237 in the current tick
    n_dispatch,         \* calls of send_discord_notification in the current tick
    n_queries,          \* calls of get_server_status in the current tick
    n_csleeps,          \* time.sleep(5) calls in the current tick
    ticks,              \* completed ticks since boot (saturates at MaxTicks)
    total_sent,         \* calls of send_discord_notification since boot (saturates at MaxSent)
    all_failed,         \* every query since boot has failed
    tick_quiet,         \* all_failed at the start of the current tick
    third_state,        \* the state the previous tick adopted at line 243 when it was
                        \* neither the candidate nor last_state ("none" otherwise)
    n_sleeps,           \* time.sleep(CHECK_INTERVAL) calls since the last call of line 225
    stable              \* the state every query is classified as from now on
                        \* ("none": the server may answer anything)

prog == <<pc, last_state, current_state, status, confirmed_state, confirmed_status>>
config == <<webhook_url>>
sender == <<dispatched, outcome, embed>>
tickhist == <<tick_start_last, first_sample, requery_sample, n_dispatch, n_queries, n_csleeps>>
boothist == <<ticks, total_sent, all_failed, tick_quiet, third_state>>
env == <<stable>>
vars == <<prog, config, sender, tickhist, boothist, env, n_sleeps, exit_code, query_kind>>

Min(a, b) == IF a < b THEN a ELSE b

(***************************************************************************)
(* main, up to the loop (lines 217-222), after the module-level            *)
(* configuration (lines 17-44).                                            *)
(***************************************************************************)
\* the boot state with last_state left without a ServerState
Init_NoLastState ==
    /\ pc = "poll"
    /\ last_state = NoState
    /\ current_state = NoState
    /\ status = <<>>
    /\ confirmed_state = NoState
    /\ confirmed_status = <<>>
    /\ webhook_url \in BOOLEAN
    /\ exit_code = <<>>
    /\ dispatched = NoState
    /\ outcome = "none"
    /\ embed = NoEmbed
    /\ query_kind = "none"
    /\ tick_start_last = NoState
    /\ first_sample = NoState
    /\ requery_sample = NoState
    /\ n_dispatch = 0
    /\ n_queries = 0
    /\ n_csleeps = 0
    /\ ticks = 0
    /\ total_sent = 0
    /\ all_failed = TRUE
    /\ tick_quiet = TRUE
    /\ third_state = NoState
    /\ n_sleeps = 0
    /\ stable = NoState

Init ==
    /\ pc = "poll"
    /\ last_state = OFFLINE
    /\ current_state = NoState
    /\ status = <<>>
    /\ confirmed_state = NoState
    /\ confirmed_status = <<>>
    /\ webhook_url \in BOOLEAN
    /\ exit_code = <<>>
    /\ dispatched = NoState
    /\ outcome = "none"
    /\ embed = NoEmbed
    /\ query_kind = "none"
    /\ tick_start_last = OFFLINE
    /\ first_sample = NoState
    /\ requery_sample = NoState
    /\ n_dispatch = 0
    /\ n_queries = 0
    /\ n_csleeps = 0
    /\ ticks = 0
    /\ total_sent = 0
    /\ all_failed = TRUE
    /\ tick_quiet = TRUE
    /\ third_state = NoState
    /\ n_sleeps = 0
    /\ stable = NoState

(***************************************************************************)
(* Line 225: current_state, status = get_server_status()                   *)
(***************************************************************************)
Poll ==
    /\ pc = "poll"
    /\ \E q \in LoopQueries :
         LET r == LoopResults[q] IN
         /\ stable = NoState \/ r.state = stable
         /\ query_kind' = q.kind
         /\ n_queries' = n_queries + 1
         /\ all_failed' = (all_failed /\ q.kind # "ok")
         /\ IF r.raised
            THEN /\ pc' = "crashed"
                 /\ UNCHANGED <<current_state, status, first_sample>>
            ELSE /\ pc' = "decide"
                 /\ current_state' = r.state
                 /\ status' = r.status
                 /\ first_sample' = r.state
    /\ n_sleeps' = 0
    /\ UNCHANGED <<last_state, confirmed_state, confirmed_status, config, sender,
                   exit_code, tick_start_last, requery_sample, n_dispatch,
                   n_csleeps, ticks, total_sent, tick_quiet, third_state, env>>

(***************************************************************************)
(* Lines 227-235 and 244: the tests that route the tick.                   *)
(***************************************************************************)
\* the routing without the filter of line 233: every changed state is notified
Decide_NotifyTransitional ==
    /\ pc = "decide"
    /\ pc' = IF current_state # last_state
             THEN IF current_state \in {ONLINE, WAITING}
                  THEN "confirm_sleep"
                  ELSE "send_direct"
             ELSE "sleep"
    /\ UNCHANGED <<last_state, current_state, status, confirmed_state,
                   confirmed_status, config, sender, tickhist, boothist, env, n_sleeps,
                   exit_code, query_kind>>

\* the routing with the debounce of line 235 applied to OFFLINE too
Decide_DebounceOffline ==
    /\ pc = "decide"
    /\ pc' = IF current_state # last_state
             THEN IF current_state \in {ONLINE, WAITING, OFFLINE}
                  THEN "confirm_sleep"
                  ELSE "assign"
             ELSE "sleep"
    /\ UNCHANGED <<last_state, current_state, status, confirmed_state,
                   confirmed_status, config, sender, tickhist, boothist, env, n_sleeps,
                   exit_code, query_kind>>

\* the routing without the comparison of line 227
Decide_NoComparison ==
    /\ pc = "decide"
    /\ pc' = IF current_state \in {ONLINE, WAITING, OFFLINE}
             THEN IF current_state \in {ONLINE, WAITING}
                  THEN "confirm_sleep"
                  ELSE "send_direct"
             ELSE "assign"
    /\ UNCHANGED <<last_state, current_state, status, confirmed_state,
                   confirmed_status, config, sender, tickhist, boothist, env, n_sleeps,
                   exit_code, query_kind>>

\* the routing with line 247 inside the `if' of line 233: a silent state is not
\* stored
Decide_SkipAssignTransitional ==
    /\ pc = "decide"
    /\ pc' = IF current_state # last_state
             THEN IF current_state \in {ONLINE, WAITING, OFFLINE}
                  THEN IF current_state \in {ONLINE, WAITING}
                       THEN "confirm_sleep"
                       ELSE "send_direct"
                  ELSE "sleep"
             ELSE "sleep"
    /\ UNCHANGED <<last_state, current_state, status, confirmed_state,
                   confirmed_status, config, sender, tickhist, boothist, env,
                   n_sleeps, exit_code, query_kind>>

\* the routing with a `continue' when nothing changed: line 249 is skipped
Decide_ContinueOnNoChange ==
    /\ pc = "decide"
    /\ pc' = IF current_state # last_state
             THEN IF current_state \in {ONLINE, WAITING, OFFLINE}
                  THEN IF current_state \in {ONLINE, WAITING}
                       THEN "confirm_sleep"
                       ELSE "send_direct"
                  ELSE "assign"
             ELSE "poll"
    /\ UNCHANGED <<last_state, current_state, status, confirmed_state,
                   confirmed_status, config, sender, tickhist, boothist, env,
                   n_sleeps, exit_code, query_kind>>

Decide ==
    /\ pc = "decide"
    /\ pc' = IF current_state # last_state
             THEN IF current_state \in {ONLINE, WAITING, OFFLINE}
                  THEN IF current_state \in {ONLINE, WAITING}
                       THEN "confirm_sleep"
                       ELSE "send_direct"
                  ELSE "assign"
             ELSE "sleep"
    /\ UNCHANGED <<last_state, current_state, status, confirmed_state,
                   confirmed_status, config, sender, tickhist, boothist, env, n_sleeps,
                   exit_code, query_kind>>

(***************************************************************************)
(* Line 236: time.sleep(5)                                                 *)
(***************************************************************************)
ConfirmSleep ==
    /\ pc = "confirm_sleep"
    /\ pc' = "requery"
    /\ n_csleeps' = n_csleeps + 1
    /\ UNCHANGED <<last_state, current_state, status, confirmed_state,
                   confirmed_status, config, sender, tick_start_last,
                   first_sample, requery_sample, n_dispatch, n_queries,
                   boothist, env, n_sleeps, exit_code, query_kind>>

(***************************************************************************)
(* Line 237: confirmed_state, confirmed_status = get_server_status()       *)
(***************************************************************************)
Requery ==
    /\ pc = "requery"
    /\ \E q \in LoopQueries :
         LET r == LoopResults[q] IN
         /\ stable = NoState \/ r.state = stable
         /\ query_kind' = q.kind
         /\ n_queries' = n_queries + 1
         /\ all_failed' = (all_failed /\ q.kind # "ok")
         /\ IF r.raised
            THEN /\ pc' = "crashed"
                 /\ UNCHANGED <<confirmed_state, confirmed_status, requery_sample>>
            ELSE /\ pc' = "check"
                 /\ confirmed_state' = r.state
                 /\ confirmed_status' = r.status
                 /\ requery_sample' = r.state
    /\ UNCHANGED <<last_state, current_state, status, config, sender,
                   exit_code, tick_start_last, first_sample, n_dispatch,
                   n_csleeps, ticks, total_sent, tick_quiet, third_state,
                   env, n_sleeps>>

(***************************************************************************)
(* Lines 238 and 240-243: the confirmation test and the flicker branch.    *)
(***************************************************************************)
\* the confirmation test made against last_state instead of current_state
CheckConfirm_AgainstLast ==
    /\ pc = "check"
    /\ IF confirmed_state = last_state
       THEN /\ pc' = "send_confirmed"
            /\ UNCHANGED current_state
       ELSE /\ pc' = "assign"
            /\ current_state' = confirmed_state
    /\ UNCHANGED <<last_state, status, confirmed_state, confirmed_status,
                   config, sender, tickhist, boothist, env, n_sleeps, exit_code, query_kind>>

\* the flicker branch without lines 243 and 247: the candidate is dropped and
\* the re-query's state is not taken over
CheckConfirm_DiscardFlicker ==
    /\ pc = "check"
    /\ pc' = IF confirmed_state = current_state THEN "send_confirmed" ELSE "sleep"
    /\ UNCHANGED <<last_state, current_state, status, confirmed_state,
                   confirmed_status, config, sender, tickhist, boothist, env,
                   n_sleeps, exit_code, query_kind>>

\* the flicker branch followed by line 245: the re-query's state is notified
CheckConfirm_NotifyAdopted ==
    /\ pc = "check"
    /\ IF confirmed_state = current_state
       THEN /\ pc' = "send_confirmed"
            /\ UNCHANGED current_state
       ELSE /\ pc' = "send_direct"
            /\ current_state' = confirmed_state
    /\ UNCHANGED <<last_state, status, confirmed_state, confirmed_status,
                   config, sender, tickhist, boothist, env, n_sleeps,
                   exit_code, query_kind>>

CheckConfirm ==
    /\ pc = "check"
    /\ IF confirmed_state = current_state
       THEN /\ pc' = "send_confirmed"
            /\ UNCHANGED current_state
       ELSE /\ pc' = "assign"
            /\ current_state' = confirmed_state
    /\ UNCHANGED <<last_state, status, confirmed_state, confirmed_status,
                   config, sender, tickhist, boothist, env, n_sleeps, exit_code, query_kind>>

(***************************************************************************)
(* A call of send_discord_notification from main, with the status st;      *)
(* next_pc is the statement that follows the call.                         *)
(***************************************************************************)
Send(st, next_pc) ==
    \E transport_ok \in BOOLEAN :
        LET r == send_discord_notification(current_state, st, webhook_url,
                                           SHOW_PLAYERS, SHOW_MOTD, transport_ok)
        IN  /\ dispatched' = current_state
            /\ outcome' = r.outcome
            /\ embed' = r.embed
            /\ n_dispatch' = n_dispatch + 1
            /\ total_sent' = Min(total_sent + 1, MaxSent)
            /\ pc' = IF r.raised THEN "crashed" ELSE next_pc

\* line 239 without the `else' of line 244: line 245 follows line 239
SendConfirmed_FallsThrough ==
    /\ pc = "send_confirmed"
    /\ Send(confirmed_status, "send_direct")
    /\ UNCHANGED <<last_state, current_state, status, confirmed_state,
                   confirmed_status, config, exit_code, query_kind,
                   tick_start_last, first_sample, requery_sample, n_queries,
                   n_csleeps, ticks, all_failed, tick_quiet, third_state,
                   env, n_sleeps>>

\* line 239: send_discord_notification(current_state, confirmed_status)
SendConfirmed ==
    /\ pc = "send_confirmed"
    /\ Send(confirmed_status, "assign")
    /\ UNCHANGED <<last_state, current_state, status, confirmed_state,
                   confirmed_status, config, exit_code, query_kind,
                   tick_start_last, first_sample, requery_sample, n_queries,
                   n_csleeps, ticks, all_failed, tick_quiet, third_state,
                   env, n_sleeps>>

\* line 245: send_discord_notification(current_state, status)
SendDirect ==
    /\ pc = "send_direct"
    /\ Send(status, "assign")
    /\ UNCHANGED <<last_state, current_state, status, confirmed_state,
                   confirmed_status, config, exit_code, query_kind,
                   tick_start_last, first_sample, requery_sample, n_queries,
                   n_csleeps, ticks, all_failed, tick_quiet, third_state,
                   env, n_sleeps>>

(***************************************************************************)
(* Line 247: last_state = current_state                                    *)
(***************************************************************************)
\* line 247 storing the boot value instead of current_state: last_state is
\* reset to OFFLINE
Assign_ResetsToOffline ==
    /\ pc = "assign"
    /\ last_state' = OFFLINE
    /\ pc' = "sleep"
    /\ UNCHANGED <<current_state, status, confirmed_state, confirmed_status,
                   config, sender, tickhist, boothist, env, n_sleeps,
                   exit_code, query_kind>>

Assign ==
    /\ pc = "assign"
    /\ last_state' = current_state
    /\ pc' = "sleep"
    /\ UNCHANGED <<current_state, status, confirmed_state, confirmed_status,
                   config, sender, tickhist, boothist, env, n_sleeps, exit_code, query_kind>>

(***************************************************************************)
(* Line 249: time.sleep(CHECK_INTERVAL); the next tick starts.             *)
(***************************************************************************)
Sleep ==
    /\ pc = "sleep"
    /\ pc' = "poll"
    /\ ticks' = Min(ticks + 1, MaxTicks)
    /\ tick_start_last' = last_state
    /\ first_sample' = NoState
    /\ requery_sample' = NoState
    /\ n_dispatch' = 0
    /\ n_queries' = 0
    /\ n_csleeps' = 0
    /\ tick_quiet' = all_failed
    /\ third_state' = IF requery_sample \notin {NoState, first_sample, tick_start_last}
                      THEN requery_sample
                      ELSE NoState
    /\ n_sleeps' = n_sleeps + 1
    /\ UNCHANGED <<last_state, current_state, status, confirmed_state,
                   confirmed_status, config, sender, total_sent, all_failed,
                   env, exit_code, query_kind>>

(***************************************************************************)
(* Lines 253-257: a KeyboardInterrupt is raised in main, at any statement  *)
(* (`except Exception' does not catch it), and the handler exits with 0.   *)
(***************************************************************************)
\* the interrupt without the handler of lines 255-257: the interpreter ends
\* the process with the status of an uncaught KeyboardInterrupt
Interrupt_Unhandled ==
    /\ pc \notin {"exited", "crashed"}
    /\ pc' = "exited"
    /\ exit_code' = <<130>>
    /\ UNCHANGED <<last_state, current_state, status, confirmed_state,
                   confirmed_status, config, sender, tickhist, boothist, env, n_sleeps,
                   query_kind>>

Interrupt ==
    /\ pc \notin {"exited", "crashed"}
    /\ pc' = "exited"
    /\ exit_code' = <<0>>
    /\ UNCHANGED <<last_state, current_state, status, confirmed_state,
                   confirmed_status, config, sender, tickhist, boothist, env, n_sleeps,
                   query_kind>>

Next ==
    \/ Poll
    \/ Decide
    \/ ConfirmSleep
    \/ Requery
    \/ CheckConfirm
    \/ SendConfirmed
    \/ SendDirect
    \/ Assign
    \/ Sleep
    \/ Interrupt

Spec == Init /\ [][Next]_vars

(***************************************************************************)
(* The classifier on its own, over its whole input space.                  *)
(***************************************************************************)
InitClassify ==
    /\ Init
    /\ webhook_url

Classify ==
    /\ pc = "poll"
    /\ pc' = "decide"
    /\ \E q \in AllQueries :
         LET r == get_server_status(q) IN
         /\ query_kind' = q.kind
         /\ current_state' = r.state
         /\ status' = r.status
    /\ UNCHANGED <<last_state, confirmed_state, confirmed_status, config,
                   sender, tickhist, boothist, env, n_sleeps, exit_code>>

NextClassify == Classify

SpecClassify == InitClassify /\ [][NextClassify]_vars

(***************************************************************************)
(* The sender on its own: one notification for a response whose message    *)
(* text carries formatting codes (lines 183-193).                          *)
(***************************************************************************)
\* the characters the texts of the formatter's input space are made of
AnsiAlphabet == {"§", "a", "C", "k", "z", "W"}

RECURSIVE Strings(_)
Strings(n) ==
    IF n = 0 THEN { <<>> }
    ELSE Strings(n - 1) \cup { t \o <<c>> : t \in Strings(n - 1), c \in AnsiAlphabet }

\* the message text "§aWelcome! §cconnect to play.example.com"
ExampleMotd ==
    << "§","a","W","e","l","c","o","m","e","!"," ","§",
       "c","c","o","n","n","e","c","t"," ","t","o"," ",
       "p","l","a","y",".","e","x","a","m","p","l","e",
       ".","c","o","m" >>

AnsiTexts == Strings(MaxAnsiLen) \cup { ExampleMotd }

InitNotify ==
    /\ Init
    /\ webhook_url

Notify ==
    /\ pc = "poll"
    /\ pc' = "assign"
    /\ \E text \in AnsiTexts :
         LET r == get_server_status(QueryOk(text, 20))
             n == send_discord_notification(r.state, r.status, webhook_url,
                                            SHOW_PLAYERS, SHOW_MOTD, TRUE)
         IN  /\ query_kind' = "ok"
             /\ current_state' = r.state
             /\ status' = r.status
             /\ dispatched' = r.state
             /\ outcome' = n.outcome
             /\ embed' = n.embed
    /\ UNCHANGED <<last_state, confirmed_state, confirmed_status, config,
                   tickhist, boothist, env, n_sleeps, exit_code>>

NextNotify == Notify

SpecNotify == InitNotify /\ [][NextNotify]_vars

(***************************************************************************)
(* The loop under the scheduling of a running process: a statement that    *)
(* can run does run; the interrupt may or may not come.                    *)
(***************************************************************************)
Loop ==
    \/ Poll
    \/ Decide
    \/ ConfirmSleep
    \/ Requery
    \/ CheckConfirm
    \/ SendConfirmed
    \/ SendDirect
    \/ Assign
    \/ Sleep

FairSpec == Spec /\ WF_vars(Loop)

(***************************************************************************)
(* The loop against a server that settles: before some query the server    *)
(* reaches a state in which every later query (lines 116-119) is           *)
(* classified the same.                                                    *)
(***************************************************************************)
Stabilize ==
    /\ pc \in {"poll", "requery"}
    /\ stable = NoState
    /\ stable' \in ServerState
    /\ UNCHANGED <<prog, config, sender, tickhist, boothist, n_sleeps,
                   exit_code, query_kind>>

NextStable ==
    \/ Next
    \/ Stabilize

StableSpec == Init /\ [][NextStable]_vars /\ WF_vars(Loop)

TypeOK ==
    /\ pc \in {"poll", "decide", "confirm_sleep", "requery", "check",
               "send_confirmed", "send_direct", "assign", "sleep",
               "exited", "crashed"}
    /\ last_state \in ServerState
    /\ current_state \in ServerState \cup {NoState}
    /\ confirmed_state \in ServerState \cup {NoState}
    /\ Len(status) <= 1 /\ Len(confirmed_status) <= 1
    /\ dispatched \in ServerState \cup {NoState}
    /\ outcome \in {"none", "sent", "failed", "skipped"}
    /\ n_dispatch \in 0..2 /\ n_queries \in 0..2 /\ n_csleeps \in 0..1
    /\ ticks \in 0..MaxTicks /\ total_sent \in 0..MaxSent
    /\ third_state \in ServerState \cup {NoState}
    /\ stable \in ServerState \cup {NoState}
    /\ n_sleeps \in 0..1

(***************************************************************************)
(* Properties of the watch loop.  A tick has ended when the process is at  *)
(* the interval sleep of line 249; the history variables then describe the *)
(* whole tick.                                                             *)
(***************************************************************************)
TickEnd == pc = "sleep"

\* C1 (as stated): at the end of every tick, a notification was dispatched in
\* the tick if and only if last_state differs from its value at the start of
\* the tick.
C1_DispatchIffChanged ==
    TickEnd => ((n_dispatch > 0) <=> (last_state # tick_start_last))

\* C1 (amended): at the end of every tick, a notification was dispatched in the
\* tick if and only if last_state differs from its value at the start of the
\* tick, equals the first sample of the tick and is ONLINE, WAITING or OFFLINE.
C1_DispatchIffNotifiedChange ==
    TickEnd =>
        ((n_dispatch > 0) <=>
            /\ last_state # tick_start_last
            /\ last_state = first_sample
            /\ last_state \in {ONLINE, WAITING, OFFLINE})

C1_Witness ==
    /\ TickEnd
    /\ n_dispatch = 1
    /\ last_state # tick_start_last
    /\ last_state = WAITING

\* C2: debounce.  At the end of a tick that started with last_state other than
\* ONLINE, sampled ONLINE first and OFFLINE in the confirmation re-query, no
\* notification was dispatched and last_state has its value of the start of
\* the tick.
C2_Debounce ==
    (TickEnd /\ tick_start_last # ONLINE
        /\ first_sample = ONLINE /\ requery_sample = OFFLINE)
    => (n_dispatch = 0 /\ last_state = tick_start_last)

\* C3: in a tick whose first sample is OFFLINE while last_state is not OFFLINE,
\* there is no confirmation sleep and no re-query, and at the end of the tick
\* exactly one notification was dispatched, for OFFLINE, and last_state is
\* OFFLINE.
C3_OfflineImmediate ==
    (first_sample = OFFLINE /\ tick_start_last # OFFLINE)
    => /\ n_csleeps = 0
       /\ n_queries = 1
       /\ requery_sample = NoState
       /\ TickEnd => (n_dispatch = 1 /\ dispatched = OFFLINE /\ last_state = OFFLINE)

C3_Witness ==
    /\ TickEnd
    /\ first_sample = OFFLINE
    /\ tick_start_last = ONLINE
    /\ n_dispatch = 1
    /\ last_state = OFFLINE

\* C4: send_discord_notification is called at most once in a tick.
C4_AtMostOneDispatch == n_dispatch <= 1

C4_Witness ==
    /\ TickEnd
    /\ n_dispatch = 1
    /\ n_queries = 2

\* C5: idempotence.  In a tick whose first sample equals last_state there is no
\* dispatch, no confirmation sleep, no re-query, and last_state keeps its
\* value; this holds in every tick, so also in each of the ticks that follow a
\* confirmed transition and sample the confirmed state.
C5_Idempotent ==
    (first_sample # NoState /\ first_sample = tick_start_last)
    => /\ n_dispatch = 0
       /\ n_csleeps = 0
       /\ n_queries = 1
       /\ requery_sample = NoState
       /\ last_state = tick_start_last

C5_Witness ==
    /\ TickEnd
    /\ ticks >= 2
    /\ first_sample = ONLINE
    /\ tick_start_last = ONLINE
    /\ dispatched = ONLINE
    /\ total_sent = 1
    /\ n_dispatch = 0

\* C6: boot quiet period.  As long as every query since boot has failed, no
\* notification has been dispatched and last_state is OFFLINE.
C6_BootQuiet ==
    all_failed =>
        /\ total_sent = 0
        /\ n_dispatch = 0
        /\ dispatched = NoState
        /\ last_state = OFFLINE

C6_Witness ==
    /\ TickEnd
    /\ all_failed
    /\ ticks >= 2
    /\ query_kind = "timeout"

\* C7: confirmation.  At the end of a tick whose first sample X is ONLINE or
\* WAITING and differs from last_state, and whose re-query returned X too,
\* exactly one notification was dispatched in the tick, for X, and last_state
\* is X; when every query before the tick failed (as after two failed ticks
\* from boot) it is the only notification since boot.
C7_Confirmed ==
    (TickEnd /\ first_sample \in {ONLINE, WAITING}
        /\ first_sample # tick_start_last /\ requery_sample = first_sample)
    => /\ n_dispatch = 1
       /\ dispatched = first_sample
       /\ last_state = first_sample
       /\ tick_quiet => total_sent = 1

C7_Witness ==
    /\ TickEnd
    /\ ticks = 2
    /\ tick_quiet
    /\ first_sample = ONLINE
    /\ requery_sample = ONLINE
    /\ total_sent = 1
    /\ dispatched = ONLINE
    /\ last_state = ONLINE

(***************************************************************************)
(* Properties of the classifier.                                           *)
(***************************************************************************)
\* the text has the keyword at some position, compared without regard to case
MentionsAt(text, kw, i) ==
    /\ i + Len(kw) - 1 <= Len(text)
    /\ \A j \in 1..Len(kw) : LowerChar(text[i + j - 1]) = kw[j]

Mentions(text, kw) == \E i \in 1..Len(text) : MentionsAt(text, kw, i)

\* C8: a successful response whose message text contains "offline", in any
\* case, is classified OFFLINE, whatever else the text contains and whatever
\* the capacity is (so never WAITING when it also contains "connect to").
C8_OfflineWins ==
    (pc = "decide" /\ status # <<>> /\ Mentions(status[1].description, KwOffline))
    => current_state = OFFLINE

C8_Witness ==
    /\ pc = "decide"
    /\ status # <<>>
    /\ Mentions(status[1].description, KwOffline)
    /\ Mentions(status[1].description, KwConnectTo)
    /\ status[1].description # Lower(status[1].description)
    /\ status[1].max = 20
    /\ current_state = OFFLINE

\* C9: get_server_status never raises to the loop: a failed query (resolution,
\* connection or malformed response) gives the sample (OFFLINE, None), the
\* process does not die of it, and the loop comes back to its next query
\* unless it is interrupted.
C9_NeverRaises ==
    /\ [](pc # "crashed")
    /\ []((pc = "decide" /\ query_kind \in FailureKinds)
            => (current_state = OFFLINE /\ status = <<>>))
    /\ []((pc = "check" /\ query_kind \in FailureKinds)
            => (confirmed_state = OFFLINE /\ confirmed_status = <<>>))
    /\ ((pc \in {"decide", "check"} /\ query_kind \in FailureKinds)
            ~> (pc \in {"poll", "exited"}))

C9_Witness ==
    /\ pc = "check"
    /\ query_kind = "malformed"
    /\ confirmed_state = OFFLINE
    /\ confirmed_status = <<>>
    /\ first_sample = WAITING

\* what last_state is at the end of a tick, from its value at the start of the
\* tick and the classifier's results alone
ExpectedLast(start, first, re) ==
    IF first = start THEN start
    ELSE IF first \in {ONLINE, WAITING} THEN re
    ELSE first

\* C10: the outcome of a dispatch (sent, failed, skipped for want of a webhook
\* URL) does not influence the state machine: the process does not die of it,
\* last_state at the end of a tick is determined by the classifier's results,
\* a tick that dispatched for X ends with last_state = X, and a tick sampling
\* the value of last_state dispatches nothing, whatever the earlier outcome.
C10_OutcomeIrrelevant ==
    /\ pc # "crashed"
    /\ (outcome = "skipped") => ~webhook_url
    /\ TickEnd => last_state = ExpectedLast(tick_start_last, first_sample, requery_sample)
    /\ (TickEnd /\ n_dispatch > 0) => last_state = dispatched
    /\ (first_sample = tick_start_last) => n_dispatch = 0

C10_Witness ==
    /\ TickEnd
    /\ outcome = "failed"
    /\ dispatched = WAITING
    /\ last_state = WAITING
    /\ first_sample = WAITING
    /\ tick_start_last = WAITING
    /\ n_dispatch = 0

(***************************************************************************)
(* Properties of the interrupt.                                            *)
(***************************************************************************)
\* C11: an interrupt stops the watcher cleanly: the process has exited if and
\* only if its exit code is set, the code is 0, the step that exits changes
\* nothing else (no final notification, no query), nothing happens after the
\* exit, and a process that has not been interrupted can always take the next
\* step of the loop.
C11_CleanInterrupt ==
    /\ [](pc = "exited" <=> exit_code # <<>>)
    /\ [](exit_code # <<>> => exit_code = <<0>>)
    /\ [](pc # "exited" => ENABLED Loop)
    /\ [][pc' = "exited" =>
            UNCHANGED <<last_state, current_state, status, confirmed_state,
                        confirmed_status, sender, tickhist, boothist,
                        n_sleeps, query_kind>>]_vars
    /\ [][pc = "exited" => UNCHANGED vars]_vars

C11_Witness ==
    /\ pc = "exited"
    /\ exit_code = <<0>>
    /\ first_sample = OFFLINE
    /\ tick_start_last = ONLINE
    /\ current_state = OFFLINE
    /\ last_state = ONLINE
    /\ n_dispatch = 0

(***************************************************************************)
(* Properties of the formatter.                                            *)
(***************************************************************************)
\* the characters that are formatting codes
KnownCodes ==
    {"0","1","2","3","4","5","6","7","8","9",
     "a","b","c","d","e","f","k","l","m","n","o","r"}

ResetSeq == <<"ESC", "[", "0", "m">>
GreenSeq == <<"ESC", "[", "3", "2", ";", "1", "m">>
RedSeq == <<"ESC", "[", "3", "1", ";", "1", "m">>

\* the translation, told from the front of the text: a section marker and a
\* known code after it become the code's escape sequence, any other character
\* is copied
RECURSIVE Translated(_)
Translated(t) ==
    IF t = <<>> THEN <<>>
    ELSE IF Head(t) = "§" /\ Len(t) >= 2 /\ LowerChar(t[2]) \in KnownCodes
         THEN CodeOf(LowerChar(t[2])) \o Translated(SubSeq(t, 3, Len(t)))
         ELSE <<Head(t)>> \o Translated(Tail(t))

EndsWith(t, suffix) ==
    /\ Len(t) >= Len(suffix)
    /\ SubSeq(t, Len(t) - Len(suffix) + 1, Len(t)) = suffix

StartsWith(t, prefix) ==
    /\ Len(t) >= Len(prefix)
    /\ SubSeq(t, 1, Len(prefix)) = prefix

\* C12: the MOTD of a sent embed is the translation of the response's text
\* followed by the reset sequence: known codes replaced by their escape
\* sequences (nothing for k, m, o), a marker before an unknown character or at
\* the end of the text copied; for the example text it begins with the green
\* sequence, contains the red one and ends with the reset.
C12_AnsiTranslation ==
    (pc = "assign" /\ status # <<>> /\ embed.motd # <<>>)
    => LET t == status[1].description
           out == embed.motd[1]
       IN  /\ EndsWith(out, ResetSeq)
           /\ out = Translated(t) \o ResetSeq
           /\ CodeOf("k") = <<>> /\ CodeOf("m") = <<>> /\ CodeOf("o") = <<>>
           /\ CodeOf("a") = GreenSeq /\ CodeOf("c") = RedSeq /\ CodeOf("r") = ResetSeq
           /\ (Len(t) > 0 /\ t[Len(t)] = "§") => EndsWith(out, <<"§">> \o ResetSeq)
           /\ (t = ExampleMotd)
                => (StartsWith(out, GreenSeq) /\ Contains(out, RedSeq))

C12_Witness ==
    /\ pc = "assign"
    /\ status # <<>>
    /\ status[1].description = ExampleMotd
    /\ embed.motd # <<>>
    /\ StartsWith(embed.motd[1], GreenSeq)
    /\ Contains(embed.motd[1], RedSeq)
    /\ EndsWith(embed.motd[1], ResetSeq)

(***************************************************************************)
(* Properties of the flicker branch and of the silent states.              *)
(***************************************************************************)
\* the tick's first sample was an ONLINE or WAITING candidate and the re-query
\* returned another state
Flickered ==
    /\ first_sample \in {ONLINE, WAITING}
    /\ first_sample # tick_start_last
    /\ requery_sample # NoState
    /\ requery_sample # first_sample

\* C13: flicker.  At the end of a tick whose ONLINE or WAITING candidate was
\* not confirmed by the re-query, no notification was dispatched and
\* last_state has its value of the start of the tick, whatever the re-query
\* returned.
C13_FlickerKeepsLast ==
    (TickEnd /\ Flickered) => (n_dispatch = 0 /\ last_state = tick_start_last)

\* C14: third-state adoption.  At the end of a tick whose re-query returned a
\* state Y that is neither the candidate nor the old last_state, nothing was
\* dispatched and last_state is Y; in the tick that follows, Y is the value the
\* first sample is compared with, and a first sample Y is no change: no
\* dispatch, no re-query, last_state stays Y.
C14_ThirdStateAdopted ==
    /\ (TickEnd /\ Flickered /\ requery_sample # tick_start_last)
        => (n_dispatch = 0 /\ last_state = requery_sample)
    /\ (third_state # NoState) => tick_start_last = third_state
    /\ (third_state # NoState /\ pc \in {"poll", "decide"}) => last_state = third_state
    /\ (third_state # NoState /\ first_sample = third_state)
        => /\ pc \in {"decide", "sleep", "exited"}
           /\ n_dispatch = 0
           /\ n_queries = 1
           /\ requery_sample = NoState
           /\ last_state = third_state

C14_Witness ==
    /\ TickEnd
    /\ third_state = STOPPING
    /\ first_sample = STOPPING
    /\ last_state = STOPPING
    /\ n_dispatch = 0
    /\ total_sent = 0

\* C15: silent transition states.  In a tick whose first sample is STARTING or
\* STOPPING and differs from last_state there is no dispatch, no confirmation
\* sleep and no re-query, and at the end of the tick last_state is the sampled
\* state (so the next tick compares its sample with it).
C15_SilentTransition ==
    (first_sample \in {STARTING, STOPPING} /\ first_sample # tick_start_last)
    => /\ n_dispatch = 0
       /\ n_csleeps = 0
       /\ n_queries = 1
       /\ requery_sample = NoState
       /\ TickEnd => last_state = first_sample

C15_Witness ==
    /\ TickEnd
    /\ first_sample = STARTING
    /\ tick_start_last = ONLINE
    /\ last_state = STARTING
    /\ n_dispatch = 0

(***************************************************************************)
(* The classifier's rule order.                                            *)
(***************************************************************************)
\* the state of the first rule that matches the text and the capacity
FirstRule(text, capacity) ==
    IF Mentions(text, KwOffline) THEN OFFLINE
    ELSE IF Mentions(text, KwStarting) \/ Mentions(text, KwPreparing) THEN STARTING
    ELSE IF Mentions(text, KwStopping) THEN STOPPING
    ELSE IF Mentions(text, KwConnectTo) THEN WAITING
    ELSE IF capacity = 0 THEN OFFLINE
    ELSE ONLINE

\* C16: a successful query is classified by the first matching rule of the
\* order offline, starting/preparing, stopping, connect to, capacity 0,
\* otherwise ONLINE, and the response is returned with the state.
C16_RuleOrder ==
    (pc = "decide" /\ query_kind = "ok")
    => /\ status # <<>>
       /\ current_state = FirstRule(status[1].description, status[1].max)

C16_Witness ==
    /\ pc = "decide"
    /\ query_kind = "ok"
    /\ status # <<>>
    /\ status[1].max = 0
    /\ Mentions(status[1].description, KwConnectTo)
    /\ Mentions(status[1].description, KwStopping)
    /\ current_state = STOPPING

(***************************************************************************)
(* The shape of a tick.                                                    *)
(***************************************************************************)
\* the tick's first sample is a candidate that line 235 debounces
Candidate ==
    /\ first_sample \in {ONLINE, WAITING}
    /\ first_sample # tick_start_last

\* C17: a first-sample query is made at boot or after exactly one interval
\* sleep that ended the previous tick, whichever branch that tick took; the
\* confirmation sleep and the re-query happen only for an ONLINE or WAITING
\* candidate, once, the re-query after the sleep; a tick makes one query, or
\* two for a candidate.
C17_TickShape ==
    /\ (pc = "poll") => (n_queries = 0 /\ n_csleeps = 0 /\ n_dispatch = 0)
    /\ (pc = "poll" /\ ticks > 0) => n_sleeps = 1
    /\ (pc = "poll" /\ ticks = 0) => n_sleeps = 0
    /\ (pc \notin {"poll", "exited"}) => n_sleeps = 0
    /\ n_queries <= 2 /\ n_csleeps <= 1
    /\ (n_csleeps = 1 \/ n_queries = 2 \/ requery_sample # NoState) => Candidate
    /\ (n_queries = 2) => n_csleeps = 1
    /\ TickEnd => n_queries = (IF Candidate THEN 2 ELSE 1)
    /\ TickEnd => n_csleeps = (IF Candidate THEN 1 ELSE 0)

C17_Witness ==
    /\ pc = "poll"
    /\ n_sleeps = 1
    /\ n_queries = 0
    /\ third_state = STARTING
    /\ dispatched = WAITING
    /\ ticks = 2

(***************************************************************************)
(* What is notified.                                                       *)
(***************************************************************************)
\* C18: going down is always reported.  At the end of a tick in which
\* last_state changed from another value to OFFLINE, an OFFLINE notification
\* was dispatched in the tick, also when OFFLINE was first seen by the
\* re-query.
C18_DownReported ==
    (TickEnd /\ tick_start_last # OFFLINE /\ last_state = OFFLINE)
    => (n_dispatch = 1 /\ dispatched = OFFLINE)

\* C19: a notification dispatched in a tick is for ONLINE, WAITING or OFFLINE,
\* never for STARTING or STOPPING (nor does an embed carry the STOPPING title);
\* its state differs from last_state at the start of the tick and is
\* last_state at the end of the tick.
C19_DispatchedState ==
    (n_dispatch > 0)
    => /\ dispatched \in {ONLINE, WAITING, OFFLINE}
       /\ dispatched # tick_start_last
       /\ dispatched = current_state
       /\ TickEnd => last_state = dispatched
       /\ (outcome # "skipped")
            => /\ embed.title = StatusText(dispatched)
               /\ embed.title \in {"ONLINE_TITLE", "WAITING_TITLE", "OFFLINE_TITLE"}

C19_Witness ==
    /\ TickEnd
    /\ n_dispatch = 1
    /\ dispatched = ONLINE
    /\ tick_start_last = WAITING
    /\ last_state = ONLINE
    /\ outcome = "sent"
    /\ embed.title = "ONLINE_TITLE"

(***************************************************************************)
(* Convergence.                                                            *)
(***************************************************************************)
\* C20: once every query is classified X, and unless the process is
\* interrupted, last_state becomes X; once it is X it stays X and no further
\* notification is dispatched.
C20_Convergence ==
    /\ (stable # NoState) ~> (pc = "exited" \/ last_state = stable)
    /\ [][(stable # NoState /\ last_state = stable)
            => (last_state' = last_state /\ n_dispatch' <= n_dispatch
                /\ total_sent' = total_sent)]_vars

C20_Witness ==
    /\ stable = STARTING
    /\ last_state = STARTING
    /\ tick_start_last = STARTING
    /\ first_sample = STARTING
    /\ TickEnd
    /\ dispatched = ONLINE
    /\ n_dispatch = 0

====
